---- MODULE Spec2Model ----
(***************************************************************************)
(* Model of src/app.py: the data core (get_stock_data, get_shares_data,    *)
(* get_earnings_date, get_smart_money_data, get_institutional_holders) and *)
(* one run of the dashboard tab (sidebar, radar overview, single-ticker    *)
(* analysis).                                                              *)
(*                                                                         *)
(* Representation.  Python None is the empty sequence <<>> and a present   *)
(* value x is <<x>>.  Floats are exact rationals <<n, d>> with d > 0 in    *)
(* lowest terms, so equality of values is equality of pairs.  Tickers and  *)
(* other strings the code inspects are sequences of one-character strings. *)
(* Calendar dates are day numbers.                                         *)
(***************************************************************************)
EXTENDS Integers, Sequences, FiniteSets, TLC

VARIABLES
    portfolio_df,     \* tab1: the table load_portfolio returned
    today,            \* date.today() of this run
    pc,               \* position of the script run / of the function call
    filter_type,      \* sidebar radio
    selected_ticker,  \* None (<<>>) for the radar, <<ticker>> otherwise
    cost_basis,       \* None or <<cost>> of the selected row
    radar_data,       \* rows appended so far by the radar loop
    radar_df,         \* None or <<rows>>: the table handed to st.dataframe
    view,             \* what the single-ticker mode rendered
    fetched,          \* the yfinance requests made so far: <<what, symbol>>
    call,             \* data core: the call made, with what the source returned
    ret,              \* data core: what the function returned
    gas_sheet,        \* the rows the store behind GAS_URL holds
    current_df,       \* tab2: the table load_portfolio returned
    edited_df,        \* tab2: the table st.data_editor returned
    response,         \* tab2: what requests.post did in this run
    elements          \* tab2: the messages shown by this run, in order

vars == <<portfolio_df, today, pc, filter_type, selected_ticker, cost_basis,
          radar_data, radar_df, view, fetched, call, ret,
          gas_sheet, current_df, edited_df, response, elements>>

None == <<>>
Some(x) == <<x>>

-----------------------------------------------------------------------------
(* Exact arithmetic standing for the code's float64 arithmetic. *)

Abs(x) == IF x < 0 THEN -x ELSE x

RECURSIVE Gcd(_, _)
Gcd(a, b) == IF b = 0 THEN a ELSE Gcd(b, a % b)

\* n/d in lowest terms with a positive denominator (d # 0)
Frac(n, d) ==
    LET g == Gcd(Abs(n), Abs(d))
        s == IF d < 0 THEN -1 ELSE 1
    IN  <<s * (n \div g), s * (d \div g)>>

FracInt(k) == <<k, 1>>
\* over the least common denominator, which keeps the integers small
FracAdd(a, b) ==
    LET l == (a[2] \div Gcd(a[2], b[2])) * b[2]
    IN  Frac(a[1] * (l \div a[2]) + b[1] * (l \div b[2]), l)
FracNeg(a) == <<-a[1], a[2]>>
FracSub(a, b) == FracAdd(a, FracNeg(b))
FracMul(a, b) == Frac(a[1] * b[1], a[2] * b[2])
FracLt(a, b) == a[1] * b[2] < b[1] * a[2]
FracGt(a, b) == FracLt(b, a)

-----------------------------------------------------------------------------
(* Strings as character sequences. *)

LowerCase == <<"a","b","c","d","e","f","g","h","i","j","k","l","m",
               "n","o","p","q","r","s","t","u","v","w","x","y","z">>
UpperCase == <<"A","B","C","D","E","F","G","H","I","J","K","L","M",
               "N","O","P","Q","R","S","T","U","V","W","X","Y","Z">>

UpperChar(c) ==
    IF \E i \in 1..Len(LowerCase) : LowerCase[i] = c
    THEN UpperCase[CHOOSE i \in 1..Len(LowerCase) : LowerCase[i] = c]
    ELSE c

\* str.upper()
upper(s) == [i \in 1..Len(s) |-> UpperChar(s[i])]

\* sub in s
Contains(sub, s) ==
    \E k \in 0..(Len(s) - Len(sub)) :
        \A j \in 1..Len(sub) : s[k + j] = sub[j]

-----------------------------------------------------------------------------
(* Section 3 of app.py: the data core. *)

SOX      == <<"S","O","X">>
NDX      == <<"N","D","X">>
DJI      == <<"D","J","I">>
GSPC     == <<"G","S","P","C">>
VIX      == <<"V","I","X">>
BTC      == <<"B","T","C">>
ETH      == <<"E","T","H">>
CaretSOX  == <<"^">> \o SOX
CaretNDX  == <<"^">> \o NDX
CaretDJI  == <<"^">> \o DJI
CaretGSPC == <<"^">> \o GSPC
CaretVIX  == <<"^">> \o VIX
BTC_USD  == BTC \o <<"-","U","S","D">>
ETH_USD  == ETH \o <<"-","U","S","D">>

\* the alias table of get_stock_data
mapping ==
    [a \in {SOX, NDX, DJI, GSPC, VIX, BTC, ETH} |->
        CASE a = SOX  -> CaretSOX
          [] a = NDX  -> CaretNDX
          [] a = DJI  -> CaretDJI
          [] a = GSPC -> CaretGSPC
          [] a = VIX  -> CaretVIX
          [] a = BTC  -> BTC_USD
          [] a = ETH  -> ETH_USD]

\* mapping.get(ticker.upper(), ticker)
target_ticker(ticker) ==
    IF upper(ticker) \in DOMAIN mapping THEN mapping[upper(ticker)] ELSE ticker

RECURSIVE Pow(_, _)
Pow(b, e) == IF e = 0 THEN 1 ELSE b * Pow(b, e - 1)

\* alpha = 1/(1+com) with the span taken for the centre of mass
EwmAlphaCom(span) == <<1, span + 1>>

\* the smoothing factor of Series.ewm(span=span), 2/(span+1), as the pair
\* <<numerator, denominator>>
EwmAlpha(span) == <<2, span + 1>>

\* Series.ewm(span=span, adjust=False).mean() at index i of an integer
\* series x: the first value is the first observation, every later one is
\* (1 - alpha) * previous + alpha * observation.  EwmNum is that value's
\* numerator over the denominator ad^(i-1), alpha being an/ad.
RECURSIVE EwmNum(_, _, _)
EwmNum(x, span, i) ==
    IF i = 1 THEN x[1]
    ELSE EwmAlpha(span)[1] * x[i] * Pow(EwmAlpha(span)[2], i - 2)
         + (EwmAlpha(span)[2] - EwmAlpha(span)[1]) * EwmNum(x, span, i - 1)

ewm_mean(x, span) ==
    [i \in 1..Len(x) |-> Frac(EwmNum(x, span, i), Pow(EwmAlpha(span)[2], i - 1))]

\* get_stock_data(ticker, period).  dl is what yf.download did for
\* target_ticker: dl.raises, or a frame whose Close column is dl.Close
\* (integers; an empty frame has no rows).  The MACD, Signal and Hist columns
\* (lines 62-66) feed only the chart and are not carried.
get_stock_data(ticker, dl) ==
    IF dl.raises THEN None
    ELSE IF Len(dl.Close) = 0 THEN None
    ELSE Some([Close   |-> [i \in 1..Len(dl.Close) |-> FracInt(dl.Close[i])],
               EMA_20  |-> ewm_mean(dl.Close, 20),
               EMA_50  |-> ewm_mean(dl.Close, 50),
               EMA_200 |-> ewm_mean(dl.Close, 200)])

\* the guard every fundamentals function starts with:
\* "^" in ticker or "USD" in ticker
fundamentals_guard(ticker) ==
    Contains(<<"^">>, ticker) \/ Contains(<<"U","S","D">>, ticker)

\* DataFrame(share_row).sort_index(): the snapshots <<date, shares>> in
\* ascending date order (the dates of one row are distinct)
RECURSIVE sort_index(_)
sort_index(row) ==
    IF Len(row) = 0 THEN <<>>
    ELSE LET m == CHOOSE i \in 1..Len(row) :
                      \A j \in 1..Len(row) : row[i][1] <= row[j][1]
             rest == [k \in 1..(Len(row) - 1) |->
                         IF k < m THEN row[k] ELSE row[k + 1]]
         IN  <<row[m]>> \o sort_index(rest)

\* lines 79-83: the first of 'Ordinary Shares Number', 'Share Issued' that
\* is a row of the balance sheet
share_row_of(bs) ==
    IF bs.ordinary # None THEN bs.ordinary
    ELSE IF bs.issued # None THEN bs.issued
    ELSE None

bs_empty(bs) == bs.ordinary = None /\ bs.issued = None

\* yoy_change_of with the reference one row too late (iloc[-4])
yoy_change_off_by_one(shares_df) ==
    LET n == Len(shares_df)
        latest == shares_df[n][2]
        prev == IF n >= 5 THEN shares_df[n - 3][2] ELSE shares_df[1][2]
    IN  Frac((latest - prev) * 100, prev)

\* lines 89-91: iloc[-1] against iloc[-5] (five or more rows) or iloc[0]
yoy_change_of(shares_df) ==
    LET n == Len(shares_df)
        latest == shares_df[n][2]
        prev == IF n >= 5 THEN shares_df[n - 4][2] ELSE shares_df[1][2]
    IN  Frac((latest - prev) * 100, prev)

\* lines 94-96: the fall-back on tk.info
shares_info_fallback(tk) ==
    IF tk.info_raises THEN <<None, None>>
    ELSE IF tk.sharesOutstanding # None /\ tk.sharesOutstanding[1] # 0
         THEN <<None, Some(FracInt(0))>>
         ELSE <<None, None>>

\* get_shares_data(ticker) -> <<shares_df, yoy_change>>.  tk is what
\* yf.Ticker(ticker) holds: the quarterly and annual balance sheets (each
\* with the share rows it has, a row being the snapshots in the provider's
\* column order), whether reading them raises, and info.
get_shares_data(ticker, tk) ==
    IF fundamentals_guard(ticker) THEN <<None, None>>
    ELSE IF tk.bs_raises THEN shares_info_fallback(tk)
    ELSE LET bs == IF bs_empty(tk.quarterly) THEN tk.annual ELSE tk.quarterly
             share_row == share_row_of(bs)
         IN  IF share_row # None /\ Len(share_row[1]) >= 2
             THEN LET shares_df == sort_index(share_row[1])
                  IN  <<Some(shares_df), Some(yoy_change_of(shares_df))>>
             ELSE shares_info_fallback(tk)

\* get_earnings_date(ticker).  cal is tk.calendar: kind "raises", "none",
\* "no_key" (a dict without 'Earnings Date'), "not_list", or "list" with
\* cal.dates.
get_earnings_date(ticker, cal) ==
    IF fundamentals_guard(ticker) THEN None
    ELSE IF cal.kind = "list" /\ Len(cal.dates) > 0 THEN Some(cal.dates[1])
    ELSE None

\* get_smart_money_data(ticker) -> <<inst_own, short_pct>>
get_smart_money_data(ticker, info) ==
    IF fundamentals_guard(ticker) THEN <<None, None>>
    ELSE IF info.raises THEN <<None, None>>
    ELSE <<IF info.heldPercentInstitutions # None
           THEN Some(FracMul(info.heldPercentInstitutions[1], FracInt(100)))
           ELSE None,
           IF info.shortPercentOfFloat # None
           THEN Some(FracMul(info.shortPercentOfFloat[1], FracInt(100)))
           ELSE None>>

\* get_institutional_holders(ticker).  ih is tk.institutional_holders:
\* kind "raises", "none", or "table" with ih.rows rows.
get_institutional_holders(ticker, ih) ==
    IF fundamentals_guard(ticker) THEN None
    ELSE IF ih.kind = "table" /\ ih.rows > 0 THEN Some(ih.rows)
    ELSE None

\* the yfinance requests a call makes
stock_requests(ticker) == {<<"download", target_ticker(ticker)>>}
fundamentals_requests(what, ticker) ==
    IF fundamentals_guard(ticker) THEN {} ELSE {<<what, ticker>>}

-----------------------------------------------------------------------------
(* The inputs the data core is exercised on. *)

MaxBars == 3          \* longest Close series
MaxSnapshots == 6     \* longest share-count row
MaxDates == 2         \* longest 'Earnings Date' list

SeqsUpTo(S, n) == UNION {[1..k -> S] : k \in 0..n}

AAPL == <<"A","A","P","L">>
NVDA == <<"N","V","D","A">>
btc  == <<"b","t","c">>
USD  == <<"U","S","D">>     \* an exchange-traded fund's symbol

Tickers == {AAPL, NVDA, CaretGSPC, BTC_USD, SOX, BTC, btc, USD}

Prices == {10, 11, 12, 30}

Downloads ==
    {[raises |-> TRUE, Close |-> <<>>]} \cup
    {[raises |-> FALSE, Close |-> c] : c \in SeqsUpTo(Prices, MaxBars)}

ShareCounts == {90, 100}

\* a share row with dates 1..k, as the provider lists it (newest first) or
\* already ascending
RowAscending(v) == [i \in 1..Len(v) |-> <<i, v[i]>>]
RowNewestFirst(v) == [i \in 1..Len(v) |-> <<Len(v) + 1 - i, v[Len(v) + 1 - i]>>]

ShareRows ==
    {RowAscending(v) : v \in SeqsUpTo(ShareCounts, MaxSnapshots)} \cup
    {RowNewestFirst(v) : v \in SeqsUpTo(ShareCounts, MaxSnapshots)}

EmptySheet == [ordinary |-> None, issued |-> None]
OtherRow == RowNewestFirst(<<100, 90, 100>>)

BalanceSheets ==
    {[ordinary |-> Some(r), issued |-> None] : r \in ShareRows} \cup
    {[ordinary |-> None, issued |-> Some(r)] : r \in ShareRows} \cup
    {[ordinary |-> Some(r), issued |-> Some(OtherRow)] : r \in ShareRows}

InfoShares == {<<TRUE, None>>, <<FALSE, None>>, <<FALSE, Some(0)>>, <<FALSE, Some(1000)>>}

TkSources ==
    {[bs_raises |-> FALSE, quarterly |-> q, annual |-> EmptySheet,
      info_raises |-> i[1], sharesOutstanding |-> i[2]] :
        q \in BalanceSheets \cup {EmptySheet}, i \in InfoShares} \cup
    {[bs_raises |-> FALSE, quarterly |-> EmptySheet, annual |-> a,
      info_raises |-> i[1], sharesOutstanding |-> i[2]] :
        a \in BalanceSheets, i \in InfoShares} \cup
    {[bs_raises |-> TRUE, quarterly |-> EmptySheet, annual |-> EmptySheet,
      info_raises |-> i[1], sharesOutstanding |-> i[2]] : i \in InfoShares}

DateValues(days) ==
    {[kind |-> k, day |-> d] : k \in {"date", "datetime"}, d \in days}

CoreDays == {5, 40}

Calendars(days) ==
    {[kind |-> k, dates |-> <<>>] : k \in {"raises", "none", "no_key", "not_list"}} \cup
    {[kind |-> "list", dates |-> ds] : ds \in SeqsUpTo(DateValues(days), MaxDates)}

Infos ==
    {[raises |-> TRUE, heldPercentInstitutions |-> None, shortPercentOfFloat |-> None]} \cup
    {[raises |-> FALSE, heldPercentInstitutions |-> i, shortPercentOfFloat |-> s] :
        i \in {None, Some(Frac(0, 1)), Some(Frac(3, 10)), Some(Frac(6, 10))},
        s \in {None, Some(Frac(5, 100)), Some(Frac(15, 100))}}

HolderTables ==
    {[kind |-> "raises", rows |-> 0], [kind |-> "none", rows |-> 0],
     [kind |-> "table", rows |-> 0], [kind |-> "table", rows |-> 3]}

\* no request was posted
NoResponse == [kind |-> "none", status |-> "none"]

\* tab2 did not run
Tab2Idle ==
    /\ gas_sheet = <<>>
    /\ current_df = <<>>
    /\ edited_df = <<>>
    /\ response = NoResponse
    /\ elements = <<>>

Tab2Unchanged == UNCHANGED <<gas_sheet, current_df, edited_df, response, elements>>

-----------------------------------------------------------------------------
(* SpecCore: one call of a data-core function on any input. *)

NoCall == [fn |-> "none", ticker |-> <<>>, src |-> <<>>]

IdleRun ==
    /\ portfolio_df = <<>>
    /\ today = 0
    /\ filter_type = "All"
    /\ selected_ticker = None
    /\ cost_basis = None
    /\ radar_data = <<>>
    /\ radar_df = None
    /\ view = [mode |-> "none"]

RunUnchanged ==
    /\ UNCHANGED <<portfolio_df, today, filter_type, selected_ticker, cost_basis,
                   radar_data, radar_df, view>>
    /\ Tab2Unchanged

CoreInit ==
    /\ IdleRun
    /\ Tab2Idle
    /\ pc = "core"
    /\ fetched = {}
    /\ call = NoCall
    /\ ret = None

Returned(fn, ticker, src, value, requests) ==
    /\ pc' = "core_done"
    /\ call' = [fn |-> fn, ticker |-> ticker, src |-> src]
    /\ ret' = value
    /\ fetched' = requests
    /\ RunUnchanged

CallGetStockData ==
    /\ pc = "core"
    /\ \E t \in Tickers, dl \in Downloads :
            Returned("get_stock_data", t, dl, get_stock_data(t, dl), stock_requests(t))

CallGetSharesData ==
    /\ pc = "core"
    /\ \E t \in Tickers, tk \in TkSources :
            Returned("get_shares_data", t, tk, get_shares_data(t, tk),
                 fundamentals_requests("balance_sheet", t))

CallGetEarningsDate ==
    /\ pc = "core"
    /\ \E t \in Tickers, cal \in Calendars(CoreDays) :
            Returned("get_earnings_date", t, cal, get_earnings_date(t, cal),
                 fundamentals_requests("calendar", t))

CallGetSmartMoneyData ==
    /\ pc = "core"
    /\ \E t \in Tickers, info \in Infos :
            Returned("get_smart_money_data", t, info, get_smart_money_data(t, info),
                 fundamentals_requests("info", t))

CallGetInstitutionalHolders ==
    /\ pc = "core"
    /\ \E t \in Tickers, ih \in HolderTables :
            Returned("get_institutional_holders", t, ih, get_institutional_holders(t, ih),
                 fundamentals_requests("institutional_holders", t))

CoreNext ==
    \/ CallGetStockData
    \/ CallGetSharesData
    \/ CallGetEarningsDate
    \/ CallGetSmartMoneyData
    \/ CallGetInstitutionalHolders

SpecCore == CoreInit /\ [][CoreNext]_vars

-----------------------------------------------------------------------------
(* Section 4 of app.py, tab1: one run of the dashboard script. *)

MaxRows == 3          \* longest portfolio table

RADAR_LABEL == [Ticker |-> <<>>, Suffix |-> None]

\* the tickers of the portfolio rows, by position
RowTickers == <<AAPL, BTC, NVDA, USD>>

Costs == {0, 100}
Types == {"Holding", "Watchlist"}
FilterTypes == {"All", "Holding", "Watchlist"}

\* what load_portfolio can return: rows with a numeric Cost (absent or
\* non-numeric costs were coerced to 0.0) and distinct tickers
Portfolios ==
    UNION {{[i \in 1..n |-> [Ticker |-> RowTickers[i], Cost |-> c[i], Type |-> ty[i]]] :
                c \in [1..n -> Costs], ty \in [1..n -> Types]} : n \in 0..MaxRows}

Todays == {1000}

\* what yfinance answers during a run
RunDownloads ==
    {[raises |-> TRUE, Close |-> <<>>], [raises |-> FALSE, Close |-> <<>>],
     [raises |-> FALSE, Close |-> <<12>>],
     [raises |-> FALSE, Close |-> <<10, 10>>],
     [raises |-> FALSE, Close |-> <<10, 12>>],
     [raises |-> FALSE, Close |-> <<12, 10>>],
     [raises |-> FALSE, Close |-> <<10, 30, 11>>]}

RadarDownloads ==
    {[raises |-> TRUE, Close |-> <<>>], [raises |-> FALSE, Close |-> <<10, 12>>]}

RunCalendars(now) ==
    {[kind |-> "none", dates |-> <<>>],
     [kind |-> "list", dates |-> <<[kind |-> "datetime", day |-> now + 5]>>]} \cup
    {[kind |-> "list", dates |-> <<[kind |-> "date", day |-> now + d]>>] :
        d \in {-3, 5, 1000}}

\* the calendars met during a radar scan: none, a datetime, a date that
\* passed, and one beyond the day count given to unknown dates
RadarCalendars(now) ==
    {[kind |-> "none", dates |-> <<>>],
     [kind |-> "list", dates |-> <<[kind |-> "datetime", day |-> now + 5]>>]} \cup
    {[kind |-> "list", dates |-> <<[kind |-> "date", day |-> now + d]>>] :
        d \in {-3, 1000}}

NoShareData ==
    [bs_raises |-> FALSE, quarterly |-> EmptySheet, annual |-> EmptySheet,
     info_raises |-> FALSE, sharesOutstanding |-> None]
InfoOnlyShareData ==
    [bs_raises |-> FALSE, quarterly |-> EmptySheet, annual |-> EmptySheet,
     info_raises |-> FALSE, sharesOutstanding |-> Some(1000)]
ShareHistory(v) ==
    [bs_raises |-> FALSE,
     quarterly |-> [ordinary |-> Some(RowNewestFirst(v)), issued |-> None],
     annual |-> EmptySheet, info_raises |-> FALSE, sharesOutstanding |-> Some(1000)]

NoInfo ==
    [raises |-> FALSE, heldPercentInstitutions |-> None, shortPercentOfFloat |-> None]
InfoOf(i, sh) ==
    [raises |-> FALSE, heldPercentInstitutions |-> Some(i), shortPercentOfFloat |-> Some(sh)]

\* the fundamentals of a symbol: what its Ticker object holds
RunFundamentals ==
    {[tk |-> NoShareData, info |-> NoInfo, ih |-> [kind |-> "none", rows |-> 0]],
     [tk |-> InfoOnlyShareData, info |-> InfoOf(Frac(6, 10), Frac(15, 100)),
      ih |-> [kind |-> "table", rows |-> 3]],
     [tk |-> ShareHistory(<<100, 100, 90>>), info |-> InfoOf(Frac(3, 10), Frac(5, 100)),
      ih |-> [kind |-> "table", rows |-> 3]],
     [tk |-> ShareHistory(<<90, 100, 100>>), info |-> InfoOf(Frac(0, 1), Frac(15, 100)),
      ih |-> [kind |-> "table", rows |-> 0]]}

Init ==
    /\ portfolio_df \in Portfolios
    /\ today \in Todays
    /\ pc = "sidebar"
    /\ filter_type = "All"
    /\ selected_ticker = None
    /\ cost_basis = None
    /\ radar_data = <<>>
    /\ radar_df = None
    /\ view = [mode |-> "none"]
    /\ fetched = {}
    /\ call = <<>>
    /\ ret = None
    /\ Tab2Idle

\* df[df['Type'] == ty], in table order
RECURSIVE rows_of_type(_, _)
rows_of_type(df, ty) ==
    IF Len(df) = 0 THEN <<>>
    ELSE (IF df[1].Type = ty THEN <<df[1]>> ELSE <<>>) \o rows_of_type(Tail(df), ty)

\* lines 159-161
filtered(df, ft) ==
    IF ft = "Holding" THEN rows_of_type(df, "Holding")
    ELSE IF ft = "Watchlist" THEN rows_of_type(df, "Watchlist")
    ELSE df

\* line 165: f"{Ticker} {'($' + str(Cost) + ')' if Cost > 0 else ''}"
label_of(row) ==
    [Ticker |-> row.Ticker, Suffix |-> IF row.Cost > 0 THEN Some(row.Cost) ELSE None]

\* lines 163-165
select_options(df, ft) ==
    <<RADAR_LABEL>> \o [i \in 1..Len(filtered(df, ft)) |-> label_of(filtered(df, ft)[i])]

\* line 173: portfolio_df[portfolio_df['Ticker'] == selected_ticker].iloc[0]
first_row(df, ticker) ==
    df[CHOOSE i \in 1..Len(df) :
          /\ df[i].Ticker = ticker
          /\ \A j \in 1..(i - 1) : df[j].Ticker # ticker]

\* lines 155-180: the sidebar; the user picks a mode and an option
Sidebar ==
    /\ pc = "sidebar"
    /\ \E ft \in FilterTypes :
         \E k \in 1..Len(select_options(portfolio_df, ft)) :
            LET selected_label == select_options(portfolio_df, ft)[k]
                ticker == selected_label.Ticker     \* split(' ')[0]
            IN  /\ filter_type' = ft
                /\ IF selected_label = RADAR_LABEL
                   THEN /\ selected_ticker' = None
                        /\ cost_basis' = None
                        /\ pc' = "radar"
                   ELSE /\ selected_ticker' = Some(ticker)
                        /\ cost_basis' =
                              IF first_row(portfolio_df, ticker).Cost > 0
                              THEN Some(first_row(portfolio_df, ticker).Cost)
                              ELSE None
                        /\ pc' = "single"
    /\ UNCHANGED <<portfolio_df, today, radar_data, radar_df, view, fetched, call, ret>>
    /\ Tab2Unchanged

\* line 189
holdings == rows_of_type(portfolio_df, "Holding")

\* lines 190-191: no holdings, only a notice
RadarEmpty ==
    /\ pc = "radar"
    /\ Len(holdings) = 0
    /\ pc' = "done"
    /\ view' = [mode |-> "radar_empty"]
    /\ UNCHANGED <<portfolio_df, today, filter_type, selected_ticker, cost_basis,
                   radar_data, radar_df, fetched, call, ret>>
    /\ Tab2Unchanged

\* e_date - date.today(): only a date can be subtracted from (a datetime
\* raises TypeError)
days_until(e_date, now) == e_date.day - now

\* lines 196-221: the row of one holding.  Columns: Ticker, Cost, Price, PL
\* (amount), PLPct, Earnings (None for "N/A", else the date and the day
\* count printed), _days.
radar_row(row, df_t, e_date, now) ==
    LET c == row.Cost
        p == IF df_t # None THEN df_t[1].Close[Len(df_t[1].Close)] ELSE FracInt(0)
        pl_pct == IF c > 0
                  THEN FracMul(FracMul(FracSub(p, FracInt(c)), Frac(1, c)), FracInt(100))
                  ELSE FracInt(0)
        pl_val == IF c > 0 THEN FracSub(p, FracInt(c)) ELSE FracInt(0)
        dated == e_date # None /\ e_date[1].kind = "date"
        days_left == IF dated THEN days_until(e_date[1], now) ELSE 999
        e_str == IF dated
                 THEN Some([date |-> e_date[1].day, days |-> days_left])
                 ELSE None
    IN  [Ticker |-> row.Ticker, Cost |-> c, Price |-> p, PL |-> pl_val,
         PLPct |-> pl_pct, Earnings |-> e_str, _days |-> days_left]

\* rows without the one at index m
without(rows, m) ==
    [k \in 1..(Len(rows) - 1) |-> IF k < m THEN rows[k] ELSE rows[k + 1]]

\* sort_values with ascending=False
RECURSIVE sort_values_descending(_)
sort_values_descending(rows) ==
    IF Len(rows) = 0 THEN {<<>>}
    ELSE UNION {{<<rows[m]>> \o rest : rest \in sort_values_descending(without(rows, m))} :
                   m \in {i \in 1..Len(rows) :
                             \A j \in 1..Len(rows) : rows[i]._days >= rows[j]._days}}

\* DataFrame.sort_values("_days"): the orders it may produce, ascending by
\* _days (the order of rows with equal keys is not fixed by the default sort)
RECURSIVE sort_values(_)
sort_values(rows) ==
    IF Len(rows) = 0 THEN {<<>>}
    ELSE UNION {{<<rows[m]>> \o rest : rest \in sort_values(without(rows, m))} :
                   m \in {i \in 1..Len(rows) :
                             \A j \in 1..Len(rows) : rows[i]._days <= rows[j]._days}}

drop_days(r) ==
    [Ticker |-> r.Ticker, Cost |-> r.Cost, Price |-> r.Price, PL |-> r.PL,
     PLPct |-> r.PLPct, Earnings |-> r.Earnings]

\* lines 195-237: one iteration of the radar loop; the last one is followed
\* by the sort and the display of the table
RadarRow ==
    /\ pc = "radar"
    /\ Len(radar_data) < Len(holdings)
    /\ \E dl \in RadarDownloads, cal \in RadarCalendars(today) :
       \E row \in {holdings[Len(radar_data) + 1]} :
       \E df_t \in {get_stock_data(row.Ticker, dl)} :
       \E e_date \in {get_earnings_date(row.Ticker, cal)} :
       \E data \in {Append(radar_data, radar_row(row, df_t, e_date, today))} :
             /\ radar_data' = data
             /\ fetched' = fetched \cup stock_requests(row.Ticker)
                                   \cup fundamentals_requests("calendar", row.Ticker)
             /\ call' = Append(call, [fn |-> "get_stock_data", ticker |-> row.Ticker,
                                      none |-> (df_t = None)])
             /\ IF Len(data) = Len(holdings)
                THEN /\ \E sorted \in sort_values(data) :
                           radar_df' = Some([i \in 1..Len(sorted) |-> drop_days(sorted[i])])
                     /\ pc' = "done"
                     /\ view' = [mode |-> "radar"]
                ELSE UNCHANGED <<radar_df, pc, view>>
    /\ UNCHANGED <<portfolio_df, today, filter_type, selected_ticker, cost_basis, ret>>
    /\ Tab2Unchanged

\* lines 264-271: the position card; None when the "watch list" state is
\* shown instead of a profit/loss
position_card(price, cost) ==
    IF cost # None /\ cost[1] # 0
    THEN LET pl == FracSub(price, FracInt(cost[1]))
             pl_pct == FracMul(FracMul(pl, Frac(1, cost[1])), FracInt(100))
         IN  Some([pl |-> pl, pl_pct |-> pl_pct])
    ELSE None

\* lines 274-284: the earnings metric and days_to_earnings.  shown: "na",
\* "date" (the formatted date) or "raw" (the value printed as is);
\* countdown: the "N days" delta, None when absent; released: the
\* "just released" delta.
earnings_metric(earnings_date, now) ==
    IF earnings_date = None
    THEN [shown |-> "na", countdown |-> None, released |-> FALSE, days_to_earnings |-> -1]
    ELSE IF earnings_date[1].kind # "date"
    THEN [shown |-> "raw", countdown |-> None, released |-> FALSE, days_to_earnings |-> -1]
    ELSE LET d == days_until(earnings_date[1], now)
         IN  [shown |-> "date",
              countdown |-> IF d >= 0 THEN Some(d) ELSE None,
              released |-> d < 0,
              days_to_earnings |-> d]

\* lines 286-289: the share-trend metric
shares_metric(shares_yoy) ==
    IF shares_yoy # None /\ shares_yoy[1] # FracInt(0)
    THEN [shown |-> "pct", value |-> shares_yoy,
          label |-> IF FracLt(shares_yoy[1], FracInt(0)) THEN "shrinking" ELSE "dilution"]
    ELSE IF shares_yoy = Some(FracInt(0))
    THEN [shown |-> "flat", value |-> None, label |-> ""]
    ELSE [shown |-> "na", value |-> None, label |-> ""]

\* trend_judgment with >= for >
trend_judgment_or_equal(price, ema_20) ==
    IF ~FracLt(price, ema_20) THEN "above_ema20" ELSE "below_ema20"

\* lines 302-303: the first judgment
trend_judgment(price, ema_20) ==
    IF FracGt(price, ema_20) THEN "above_ema20" ELSE "below_ema20"

\* lines 301-311: the judgments, in the order they are appended
judgments_of(price, ema_20, shares_yoy, days_to_earnings, inst_own, short_pct) ==
    <<trend_judgment(price, ema_20)>>
    \o (IF shares_yoy # None /\ FracLt(shares_yoy[1], FracInt(0)) THEN <<"buyback">>
        ELSE IF shares_yoy # None /\ FracGt(shares_yoy[1], FracInt(0)) THEN <<"dilution">>
        ELSE <<>>)
    \o (IF 0 <= days_to_earnings /\ days_to_earnings <= 14
        THEN <<"earnings_warning">> ELSE <<>>)
    \o (IF inst_own # None /\ FracGt(inst_own[1], FracInt(50))
        THEN <<"institution_backed">> ELSE <<>>)
    \o (IF short_pct # None /\ FracGt(short_pct[1], FracInt(10))
        THEN <<"squeeze">> ELSE <<>>)

\* lines 243-377: the single-ticker analysis.  A frame with one bar passes
\* the test of line 248 and df.iloc[-2] raises IndexError, which nothing
\* catches: the run ends in the fault.
SingleTicker ==
    /\ pc = "single"
    /\ \E dl \in RunDownloads :
       \E df \in {get_stock_data(selected_ticker[1], dl)} :
         LET t == selected_ticker[1]
             before == stock_requests(t)
                          \cup fundamentals_requests("balance_sheet", t)
                          \cup fundamentals_requests("calendar", t)
                          \cup fundamentals_requests("info", t)
         IN  /\ call' = Append(call, [fn |-> "get_stock_data", ticker |-> t,
                                      none |-> (df = None)])
             /\ IF df = None
                THEN /\ view' = [mode |-> "no_data"]
                     /\ fetched' = fetched \cup before
                     /\ pc' = "done"
                ELSE IF Len(df[1].Close) < 2
                THEN /\ view' = [mode |-> "fault"]
                     /\ fetched' = fetched \cup before
                     /\ pc' = "fault"
                ELSE \E f \in RunFundamentals, cal \in RunCalendars(today) :
                     LET shares == get_shares_data(t, f.tk)
                         shares_yoy == shares[2]
                         earnings_date == get_earnings_date(t, cal)
                         smart == get_smart_money_data(t, f.info)
                         inst_own == smart[1]
                         short_pct == smart[2]
                         n == Len(df[1].Close)
                         price == df[1].Close[n]
                         prev == df[1].Close[n - 1]
                         change == FracSub(price, prev)
                         pct_change == FracMul(FracMul(change, Frac(prev[2], prev[1])),
                                               FracInt(100))
                         em == earnings_metric(earnings_date, today)
                     IN  /\ view' =
                               [mode |-> "single",
                                bars |-> n,
                                price |-> price,
                                change |-> change,
                                pct_change |-> pct_change,
                                ema_20 |-> df[1].EMA_20[n],
                                ema_200 |-> df[1].EMA_200[n],
                                position |-> position_card(price, cost_basis),
                                earnings |-> em,
                                shares |-> shares_metric(shares_yoy),
                                inst_own |-> IF inst_own # None /\ inst_own[1] # FracInt(0)
                                             THEN inst_own ELSE None,
                                short_pct |-> short_pct,
                                judgments |-> judgments_of(price, df[1].EMA_20[n],
                                                 shares_yoy, em.days_to_earnings,
                                                 inst_own, short_pct),
                                moat_chart |-> shares[1] # None,
                                holders |-> get_institutional_holders(t, f.ih)]
                         /\ fetched' = fetched \cup before
                               \cup fundamentals_requests("institutional_holders", t)
                         /\ pc' = "done"
    /\ UNCHANGED <<portfolio_df, today, filter_type, selected_ticker, cost_basis,
                   radar_data, radar_df, ret>>
    /\ Tab2Unchanged

Next ==
    \/ Sidebar
    \/ RadarEmpty
    \/ RadarRow
    \/ SingleTicker

Spec == Init /\ [][Next]_vars

-----------------------------------------------------------------------------
(* Sections 1 and 4 of app.py, tab2: runs of the portfolio-management tab
   against the store behind GAS_URL. *)

\* a Cost cell of the store: a JSON number, or the text 'nan'
NumberCell(n) == [kind |-> "number", num |-> n]
NanText == [kind |-> "text", num |-> 0]
CostCells == {NumberCell(c) : c \in Costs} \cup {NanText}

\* the sheets the store can hold, the Note column not carried
Sheets ==
    UNION {{[i \in 1..n |-> [Ticker |-> RowTickers[i], Cost |-> c[i], Type |-> ty[i]]] :
                c \in [1..n -> CostCells], ty \in [1..n -> Types]} : n \in 0..MaxRows}

\* what requests.get(GAS_URL) and response.json() do
GetOutcomes == {"raises", "not_json", "rows"}

\* what requests.post(GAS_URL, json=payload) does: it raises, the body is
\* not JSON, the body is JSON but no dict, or a dict whose 'status' is
\* 'success', something else, or missing
PostOutcomes ==
    {[kind |-> "raises", status |-> "none"],
     [kind |-> "not_json", status |-> "none"],
     [kind |-> "json_other", status |-> "none"],
     [kind |-> "json_dict", status |-> "success"],
     [kind |-> "json_dict", status |-> "error"],
     [kind |-> "json_dict", status |-> "missing"]}

\* pd.to_numeric(cell, errors='coerce'): NaN (None) for text
to_numeric(cell) == IF cell.kind = "number" THEN Some(cell.num) ELSE None

\* Series.fillna(0.0)
fillna(x) == IF x = None THEN 0 ELSE x[1]

\* load_portfolio(): the empty frame when the request or the parsing raises
\* or the answer has no rows, else the rows with Cost made numeric
load_portfolio(get, sheet) ==
    IF get # "rows" THEN <<>>
    ELSE [i \in 1..Len(sheet) |->
            [Ticker |-> sheet[i].Ticker,
             Cost   |-> Some(fillna(to_numeric(sheet[i].Cost))),
             Type   |-> sheet[i].Type]]

\* what st.data_editor can return for current_df: the table itself, the
\* table with a row added (its Cost left empty), with its last row deleted,
\* or with the Cost of its first row changed or cleared
Edits(df) ==
    {df}
    \cup (IF Len(df) < MaxRows
          THEN {Append(df, [Ticker |-> RowTickers[Len(df) + 1], Cost |-> None,
                            Type |-> "Holding"])}
          ELSE {})
    \cup (IF Len(df) > 0
          THEN {SubSeq(df, 1, Len(df) - 1)}
               \cup {[df EXCEPT ![1].Cost = c] : c \in {None} \cup {Some(k) : k \in Costs}}
          ELSE {})

\* DataFrame.equals on frames of the same columns
equals(a, b) == a = b

\* lines 25-28: the rows of the payload, a missing value written as its str()
payload(df) ==
    [i \in 1..Len(df) |->
        [Ticker |-> df[i].Ticker,
         Cost   |-> IF df[i].Cost = None THEN NanText ELSE NumberCell(df[i].Cost[1]),
         Type   |-> df[i].Type]]

\* save_portfolio(df) from the answer to the post on: the messages it shows
\* and whether it returns to its caller or st.stop() ends the run.  The
\* exception st.stop() raises is no Exception, so the except clause of line
\* 41 lets it pass; result.get on JSON that is no dict raises AttributeError,
\* which that clause catches.
save_portfolio(post) ==
    CASE post.kind = "raises" ->
            [shown |-> <<"error_connection">>, control |-> "stops"]
      [] post.kind = "not_json" ->
            [shown |-> <<"error_unparseable">>, control |-> "returns"]
      [] post.kind = "json_other" ->
            [shown |-> <<"error_connection">>, control |-> "stops"]
      [] post.kind = "json_dict" /\ post.status = "success" ->
            [shown |-> <<"toast_success">>, control |-> "returns"]
      [] OTHER ->
            [shown |-> <<"error_gas">>, control |-> "stops"]

\* what the store holds after a post: the posted rows when it answered
\* 'success', else either the rows it had or the posted ones
Stored(post, sheet, rows) ==
    IF post.kind = "json_dict" /\ post.status = "success" THEN {rows}
    ELSE {sheet, rows}

Tab1Idle ==
    /\ IdleRun
    /\ fetched = {}
    /\ call = NoCall
    /\ ret = None

Tab1Unchanged ==
    UNCHANGED <<portfolio_df, today, filter_type, selected_ticker, cost_basis,
                radar_data, radar_df, view, fetched, call, ret>>

Tab2Init ==
    /\ Tab1Idle
    /\ pc = "tab2_load"
    /\ gas_sheet \in Sheets
    /\ current_df = <<>>
    /\ edited_df = <<>>
    /\ response = NoResponse
    /\ elements = <<>>

\* line 135
LoadPortfolio ==
    /\ pc = "tab2_load"
    /\ \E get \in GetOutcomes : current_df' = load_portfolio(get, gas_sheet)
    /\ pc' = "tab2_editor"
    /\ UNCHANGED <<gas_sheet, edited_df, response, elements>>
    /\ Tab1Unchanged

\* lines 136-144
DataEditor ==
    /\ pc = "tab2_editor"
    /\ edited_df' \in Edits(current_df)
    /\ pc' = "tab2_compare"
    /\ UNCHANGED <<gas_sheet, current_df, response, elements>>
    /\ Tab1Unchanged

\* lines 145-148 with the call of save_portfolio: without a difference the
\* script goes on to tab1; with one it posts the table, and when
\* save_portfolio returns it shows the confirmation and reruns
SaveOnEdit ==
    /\ pc = "tab2_compare"
    /\ IF equals(edited_df, current_df)
       THEN /\ pc' = "tab1"
            /\ UNCHANGED <<gas_sheet, response, elements>>
       ELSE \E post \in PostOutcomes :
                /\ response' = post
                /\ gas_sheet' \in Stored(post, gas_sheet, payload(edited_df))
                /\ IF save_portfolio(post).control = "returns"
                   THEN /\ elements' = save_portfolio(post).shown \o <<"success_sync">>
                        /\ pc' = "rerun"
                   ELSE /\ elements' = save_portfolio(post).shown
                        /\ pc' = "stopped"
    /\ UNCHANGED <<current_df, edited_df>>
    /\ Tab1Unchanged

\* the next run of the script: at once after st.rerun(), on the user's next
\* interaction otherwise
NextRun ==
    /\ pc \in {"rerun", "stopped", "tab1"}
    /\ pc' = "tab2_load"
    /\ current_df' = <<>>
    /\ edited_df' = <<>>
    /\ response' = NoResponse
    /\ elements' = <<>>
    /\ UNCHANGED gas_sheet
    /\ Tab1Unchanged

Tab2Next ==
    \/ LoadPortfolio
    \/ DataEditor
    \/ SaveOnEdit
    \/ NextRun

SpecTab2 == Tab2Init /\ [][Tab2Next]_vars

-----------------------------------------------------------------------------
(* Claims about the data core, checked under SpecCore. *)

IsStockCall == call.fn = "get_stock_data"
IsSharesCall == call.fn = "get_shares_data"
IsFundamentalsCall ==
    call.fn \in {"get_shares_data", "get_earnings_date",
                 "get_smart_money_data", "get_institutional_holders"}

\* EMA[1] = Close[1] and EMA[i] = a*Close[i] + (1-a)*EMA[i-1], a = 2/(N+1),
\* with a value at every index
FollowsRecurrence(ema, close, N) ==
    LET a == Frac(2, N + 1)
    IN  /\ Len(ema) = Len(close)
        /\ ema[1] = FracInt(close[1])
        /\ \A i \in 2..Len(close) :
              ema[i] = FracAdd(FracMul(a, FracInt(close[i])),
                               FracMul(FracSub(FracInt(1), a), ema[i - 1]))

EmaExample == ewm_mean(<<10, 12, 11>>, 2)

\* C1: whenever get_stock_data obtained a series of at least one bar, each of
\* its EMA_20, EMA_50 and EMA_200 columns has a value at every index, starts at
\* Close[0] and follows EMA[i] = a*Close[i] + (1-a)*EMA[i-1] with a = 2/(N+1);
\* and the same smoothing on Close = [10, 12, 11] with span 2 gives
\* [10, 34/3, 100/9].
C1_EmaRecurrence ==
    /\ EmaExample = <<FracInt(10), <<34, 3>>, <<100, 9>>>>
    /\ (IsStockCall /\ ~call.src.raises /\ Len(call.src.Close) >= 1) =>
          /\ ret # None
          /\ FollowsRecurrence(ret[1].EMA_20, call.src.Close, 20)
          /\ FollowsRecurrence(ret[1].EMA_50, call.src.Close, 50)
          /\ FollowsRecurrence(ret[1].EMA_200, call.src.Close, 200)

\* a three-bar series that moves, with its indicator columns returned
C1_Witness ==
    /\ IsStockCall
    /\ ~call.src.raises
    /\ call.src.Close = <<10, 12, 11>>
    /\ ret # None
    /\ Len(ret[1].EMA_200) = 3

\* the share row get_shares_data reads from the source it was given (None if
\* it has none): the quarterly sheet's, or the annual sheet's when the
\* quarterly sheet is empty
HistoryOf(tk) ==
    IF tk.bs_raises THEN None
    ELSE share_row_of(IF bs_empty(tk.quarterly) THEN tk.annual ELSE tk.quarterly)

SnapshotCount(tk) == IF HistoryOf(tk) = None THEN 0 ELSE Len(HistoryOf(tk)[1])

\* the snapshots of a row by date: Later(row, s) are those dated after s
Snapshots(row) == {row[i] : i \in 1..Len(row)}
Later(row, s) == {r \in Snapshots(row) : r[1] > s[1]}
Earlier(row, s) == {r \in Snapshots(row) : r[1] < s[1]}
LatestOf(row) == CHOOSE s \in Snapshots(row) : Later(row, s) = {}
ReferenceOf(row) ==
    IF Len(row) >= 5
    THEN CHOOSE s \in Snapshots(row) : Cardinality(Later(row, s)) = 4
    ELSE CHOOSE s \in Snapshots(row) : Earlier(row, s) = {}

SharesExample == yoy_change_of(RowAscending(<<100, 100, 95, 95, 90>>))

\* C4: when get_shares_data reads a share-count history of n >= 2 snapshots
\* it returns (latest - reference) / reference * 100, the reference being the
\* snapshot 4 positions before the latest (by date) when n >= 5 and the oldest
\* one when 2 <= n <= 4; the history [100, 100, 95, 95, 90] gives -10.
C4_SharesTrend ==
    /\ SharesExample = FracInt(-10)
    /\ (IsSharesCall /\ fetched # {} /\ SnapshotCount(call.src) >= 2) =>
          LET row == HistoryOf(call.src)[1]
              latest == LatestOf(row)[2]
              reference == ReferenceOf(row)[2]
          IN  ret[2] = Some(Frac((latest - reference) * 100, reference))

\* a six-snapshot history, listed newest first, whose oldest snapshot (90)
\* differs from the one 4 before the latest (100); the latest holds 90
C4_Witness ==
    /\ IsSharesCall
    /\ fetched # {}
    /\ HistoryOf(call.src) = Some(RowNewestFirst(<<90, 100, 90, 100, 100, 90>>))
    /\ ret[2] = Some(FracInt(-10))

\* C5: whenever fewer than 2 share-count snapshots are available,
\* get_shares_data reports the trend as undefined, never as a number.
C5_IndeterminateTrend ==
    (IsSharesCall /\ SnapshotCount(call.src) < 2) => ret[2] = None

\* a ticker that denotes an index or a crypto pair: caret-prefixed,
\* "-USD"-suffixed, or an alias get_stock_data maps to such an identifier
CaretPrefixed(t) == Len(t) >= 1 /\ t[1] = "^"
UsdSuffixed(t) ==
    Len(t) >= 4 /\ SubSeq(t, Len(t) - 3, Len(t)) = <<"-","U","S","D">>
DenotesIndexOrCrypto(t) ==
    \/ CaretPrefixed(t) \/ UsdSuffixed(t)
    \/ CaretPrefixed(target_ticker(t)) \/ UsdSuffixed(target_ticker(t))

NotApplicable(fn, value) ==
    IF fn \in {"get_shares_data", "get_smart_money_data"}
    THEN value = <<None, None>>
    ELSE value = None

\* C7: a fundamentals function called for a ticker that denotes an index or
\* a crypto pair (aliases included) returns not-applicable without a fetch,
\* and for any other ticker the short-circuit is not taken (it fetches).
C7_ShortCircuit ==
    IsFundamentalsCall =>
        IF DenotesIndexOrCrypto(call.ticker)
        THEN fetched = {} /\ NotApplicable(call.fn, ret)
        ELSE fetched # {}

-----------------------------------------------------------------------------
(* Claims about a run of the dashboard tab, checked under Spec. *)

\* the cost of the selected position as the portfolio holds it
SelectedCost == first_row(portfolio_df, selected_ticker[1]).Cost

PLAmount(price, cost) == FracSub(price, FracInt(cost))
PLPct(price, cost) == Frac(PLAmount(price, cost)[1] * 100, PLAmount(price, cost)[2] * cost)

\* C2: in the single-ticker view and in every radar row, a cost basis > 0
\* gives profitLossAmount = latestPrice - costBasis and profitLossPct =
\* profitLossAmount / costBasis * 100, and a cost basis that is absent or
\* <= 0 gives no profit/loss fields at all (never zeros).
C2_ProfitLoss ==
    /\ view.mode = "single" =>
          IF SelectedCost > 0
          THEN view.position = Some([pl |-> PLAmount(view.price, SelectedCost),
                                     pl_pct |-> PLPct(view.price, SelectedCost)])
          ELSE view.position = None
    /\ \A i \in 1..Len(radar_data) :
          IF radar_data[i].Cost > 0
          THEN /\ radar_data[i].PL = PLAmount(radar_data[i].Price, radar_data[i].Cost)
               /\ radar_data[i].PLPct = PLPct(radar_data[i].Price, radar_data[i].Cost)
          ELSE /\ radar_data[i].PL = None
               /\ radar_data[i].PLPct = None

\* C3: a single-ticker evaluation never ends in an unhandled fault (with
\* fewer than 2 bars it ends in the no-data outcome), and latestPrice,
\* priceChange and priceChangePct are computed only from at least 2 bars.
C3_InsufficientHistory ==
    /\ pc # "fault"
    /\ view.mode = "single" => view.bars >= 2

\* C6: the day count printed for a radar row is its date minus today; no
\* view shows a negative countdown, and a radar row whose earnings date has
\* passed is reported and sorted like one with an unknown date.
C6_PassedEarnings ==
    /\ \A i \in 1..Len(radar_data) :
          /\ radar_data[i]._days >= 0
          /\ radar_data[i].Earnings # None =>
                /\ radar_data[i].Earnings[1].days = radar_data[i].Earnings[1].date - today
                /\ radar_data[i].Earnings[1].days >= 0
    /\ view.mode = "single" =>
          /\ view.earnings.countdown # None => view.earnings.countdown[1] >= 0
          /\ view.earnings.days_to_earnings < 0 => view.earnings.countdown = None

\* the trend judgments: the two the code words, and the two of the
\* three-way rule it does not have
TrendJudgments == {"above_ema20", "below_ema20", "below_ema200", "range_bound"}

ThreeWayTrend(price, ema_20, ema_200) ==
    IF FracGt(price, ema_20) THEN "above_ema20"
    ELSE IF FracLt(price, ema_200) THEN "below_ema200"
    ELSE "range_bound"

TrendCount(js) == Cardinality({i \in 1..Len(js) : js[i] \in TrendJudgments})

\* C8 as stated: the first judgment is the three-way trend judgment
\* (bullish above EMA20, else bearish below EMA200, else range-bound), and it
\* is the only trend judgment.
C8_ThreeWayTrend ==
    view.mode = "single" =>
        /\ Len(view.judgments) >= 1
        /\ view.judgments[1] = ThreeWayTrend(view.price, view.ema_20, view.ema_200)
        /\ TrendCount(view.judgments) = 1

\* C8 as amended: the first judgment is the two-way trend judgment, "above
\* EMA20" when latestPrice > EMA20 and "below EMA20" otherwise (EMA200 is not
\* consulted), and it is the only trend judgment.
C8_TwoWayTrend ==
    view.mode = "single" =>
        /\ Len(view.judgments) >= 1
        /\ view.judgments[1] =
              (IF view.price[1] * view.ema_20[2] > view.ema_20[1] * view.price[2]
               THEN "above_ema20" ELSE "below_ema20")
        /\ TrendCount(view.judgments) = 1

\* an assessment whose price equals its EMA20 and its EMA200, followed by
\* further judgments
C8_Witness ==
    /\ view.mode = "single"
    /\ view.price = view.ema_20
    /\ view.price = view.ema_200
    /\ Len(view.judgments) >= 3
    /\ view.judgments[1] = "below_ema20"

\* the radar table shown at the end of a scan
RadarShown == pc = "done" /\ view.mode = "radar"
Unknown(r) == r.Earnings = None
DaysOf(r) == r.Earnings[1].days
SortKey(r) == IF Unknown(r) THEN 999 ELSE DaysOf(r)

ExactlyTheHoldings(rows) ==
    /\ Len(rows) = Len(holdings)
    /\ \A h \in 1..Len(holdings) :
          \E i \in 1..Len(rows) :
              rows[i].Ticker = holdings[h].Ticker /\ rows[i].Cost = holdings[h].Cost

ExampleRows ==
    <<[Ticker |-> AAPL, _days |-> 30], [Ticker |-> BTC, _days |-> 999],
      [Ticker |-> NVDA, _days |-> 5], [Ticker |-> USD, _days |-> 12]>>

RadarExample == sort_values(ExampleRows)

\* C9 as stated: the radar table holds exactly the Holding positions,
\* whatever the sidebar filter, known day counts ascending, and every
\* position with an unknown earnings date after every one with a known date.
C9_UnknownLast ==
    RadarShown =>
        LET rows == radar_df[1]
        IN  /\ ExactlyTheHoldings(rows)
            /\ \A i, j \in 1..Len(rows) :
                  i < j =>
                     /\ (~Unknown(rows[i]) /\ ~Unknown(rows[j]))
                            => DaysOf(rows[i]) <= DaysOf(rows[j])
                     /\ Unknown(rows[i]) => Unknown(rows[j])

\* C9 as amended: the radar table holds exactly the Holding positions,
\* whatever the sidebar filter, in ascending order of the sort key, which is
\* daysToEarnings for a known date and 999 for an unknown one (so unknown
\* dates come after every known count below 999); day counts
\* [30, unknown, 5, 12] are ranked [5, 12, 30, unknown].
C9_SortedByKey ==
    /\ RadarExample
          = {<<ExampleRows[3], ExampleRows[4], ExampleRows[1], ExampleRows[2]>>}
    /\ RadarShown =>
          LET rows == radar_df[1]
          IN  /\ ExactlyTheHoldings(rows)
              /\ \A i, j \in 1..Len(rows) :
                    i < j => SortKey(rows[i]) <= SortKey(rows[j])

\* a scan under the Watchlist filter of a portfolio that also has a
\* watch-list row, whose two holdings were appended out of order: the one
\* with an unknown date first, then one with a known date, which is shown
\* first
C9_Witness ==
    /\ RadarShown
    /\ filter_type = "Watchlist"
    /\ Len(portfolio_df) > Len(holdings)
    /\ Len(radar_data) = 2
    /\ radar_data[1]._days = 999
    /\ radar_data[2]._days = -3
    /\ Unknown(radar_df[1][2])
    /\ DaysOf(radar_df[1][1]) = -3

\* C10: a holding whose price data could not be obtained does not abort the
\* scan (every holding gets its row) and its row carries a not-available
\* marker for price and profit/loss, not numbers.
C10_FailedTicker ==
    /\ RadarShown => Len(radar_df[1]) = Len(holdings)
    /\ pc = "radar" => Len(radar_data) <= Len(holdings)
    /\ \A i \in 1..Len(radar_data) :
          call[i].none =>
              /\ radar_data[i].Price = None
              /\ radar_data[i].PL = None
              /\ radar_data[i].PLPct = None

-----------------------------------------------------------------------------
(* Claims about the portfolio-management tab, checked under SpecTab2. *)

\* this run found a difference and called save_portfolio
Saved == pc \in {"rerun", "stopped"}

ReportedSuccess == response.kind = "json_dict" /\ response.status = "success"

Shows(e) == \E i \in 1..Len(elements) : elements[i] = e

ErrorShown ==
    Shows("error_connection") \/ Shows("error_unparseable") \/ Shows("error_gas")

\* C11: after an edit that differs from the loaded table, the "sync
\* complete" confirmation and the rerun happen only if the store's response
\* reported status 'success'; after every other outcome of save_portfolio
\* the run ends with an error shown and no confirmation.
C11_SyncOnlyOnSuccess ==
    Saved =>
        /\ (Shows("success_sync") \/ pc = "rerun") => ReportedSuccess
        /\ ~ReportedSuccess =>
              /\ ErrorShown
              /\ ~Shows("success_sync")
              /\ pc = "stopped"

====
